---- MODULE Spec2Model ----
(***************************************************************************)
(* Memory-augmented dialogue loop of app/local_assistant.py together with  *)
(* the request construction of app/mem0_client.py.                         *)
(*                                                                         *)
(* Python strings are sequences of one-character strings, so that strip,   *)
(* split, lower, startswith, "in" and len are computed and not assumed.    *)
(* Python values (JSON responses, payloads) are tagged records             *)
(*   [t |-> "None" | "bool" | "int" | "str" | "list" | "dict", v |-> ...]  *)
(* where a dict is the sequence of its <<key, value>> pairs in insertion   *)
(* order.  The result of a call that may raise is [ok, val, exc].          *)
(***************************************************************************)
EXTENDS Integers, Sequences, FiniteSets, TLC

(* ---------------- string literals of the source ---------------- *)
S_vera ==
    <<"v","e","r","a">>
S_jose ==
    <<"j","o","s","e">>
S_NoMemoriesFound ==
    <<"N","o"," ","m","e","m","o","r","i","e","s"," ","f","o","u","n","d",".">>
S_important ==
    <<"i","m","p","o","r","t","a","n","t">>
S_SYSTEM_PROMPT ==
    <<"Y","o","u"," ","a","r","e"," ","J","o","s","e","'","s"," ","p","e","r","s",
    "o","n","a","l"," ","a","s","s","i","s","t","a","n","t",".","\n","Y","o","u",
    " ","h","a","v","e"," ","a","c","c","e","s","s"," ","t","o"," ","a","n"," ",
    "e","x","t","e","r","n","a","l"," ","l","o","n","g","-","t","e","r","m"," ",
    "m","e","m","o","r","y"," ","s","y","s","t","e","m",".","\n","U","s","e"," ",
    "t","h","e"," ","p","r","o","v","i","d","e","d"," ","m","e","m","o","r","i",
    "e","s"," ","a","s"," ","c","o","n","t","e","x","t",","," ","b","u","t"," ",
    "d","o"," ","N","O","T"," ","m","e","n","t","i","o","n"," ","t","h","e"," ",
    "m","e","m","o","r","y"," ","s","y","s","t","e","m"," ","b","y"," ","n","a",
    "m","e",".","\n","A","l","w","a","y","s"," ","k","e","e","p"," ","a","n","s",
    "w","e","r","s"," ","s","h","o","r","t",","," ","d","i","r","e","c","t",",",
    " ","a","n","d"," ","p","r","a","c","t","i","c","a","l",".","\n">>
S_CurrentAgent ==
    <<"C","u","r","r","e","n","t"," ","a","g","e","n","t",":"," ">>
S_RelevantPrior ==
    <<"R","e","l","e","v","a","n","t"," ","p","r","i","o","r"," ","m","e","m","o",
    "r","i","e","s",":","\n">>
S_model ==
    <<"g","p","t","-","4",".","1","-","m","i","n","i">>
S_local_assistant ==
    <<"l","o","c","a","l","_","a","s","s","i","s","t","a","n","t">>
S_system ==
    <<"s","y","s","t","e","m">>
S_user ==
    <<"u","s","e","r">>
S_assistant ==
    <<"a","s","s","i","s","t","a","n","t">>
S_SearchErr ==
    <<"[","m","e","m","0"," ","s","e","a","r","c","h"," ","e","r","r","o","r","]",
    " ">>
S_AddErr ==
    <<"[","m","e","m","0"," ","a","d","d"," ","e","r","r","o","r","]"," ">>
S_ListErr ==
    <<"[","m","e","m","0"," ","l","i","s","t"," ","e","r","r","o","r","]"," ">>
\* S_GetErr with the tag named after the subcommand, not the operation
S_GetErr_ShowTag ==
    <<"[","m","e","m","0"," ","s","h","o","w"," ","e","r","r","o","r","]"," ">>
S_GetErr ==
    <<"[","m","e","m","0"," ","g","e","t"," ","e","r","r","o","r","]"," ">>
S_DeleteErr ==
    <<"[","m","e","m","0"," ","d","e","l","e","t","e"," ","e","r","r","o","r","]",
    " ">>
S_ClearErr ==
    <<"[","m","e","m","0"," ","c","l","e","a","r"," ","e","r","r","o","r","]"," ">>
S_UsageSearch ==
    <<"U","s","a","g","e",":"," ","/","m","e","m"," ","s","e","a","r","c","h"," ",
    "<","q","u","e","r","y",">">>
S_UsageShow ==
    <<"U","s","a","g","e",":"," ","/","m","e","m"," ","s","h","o","w"," ","<","m",
    "e","m","o","r","y","_","i","d",">">>
S_UsageDelete ==
    <<"U","s","a","g","e",":"," ","/","m","e","m"," ","d","e","l","e","t","e"," ",
    "<","m","e","m","o","r","y","_","i","d",">">>
S_UnknownMem ==
    <<"U","n","k","n","o","w","n"," ","/","m","e","m"," ","c","o","m","m","a","n",
    "d","."," ","U","s","e",":","\n","/","m","e","m","\n","/","m","e","m"," ","s",
    "e","a","r","c","h"," ","<","q","u","e","r","y",">","\n","/","m","e","m"," ",
    "s","h","o","w"," ","<","i","d",">","\n","/","m","e","m"," ","d","e","l","e",
    "t","e"," ","<","i","d",">","\n","/","m","e","m"," ","c","l","e","a","r">>
S_DeletedMemory ==
    <<"D","e","l","e","t","e","d"," ","m","e","m","o","r","y"," ">>
S_ClearedAll ==
    <<"C","l","e","a","r","e","d"," ","a","l","l"," ","m","e","m","o","r","i","e",
    "s"," ","f","o","r"," ","a","g","e","n","t"," ","'">>
S_quoteColonSpace ==
    <<"'",":"," ">>
S_UsageAgent ==
    <<"U","s","a","g","e",":"," ","/","a","g","e","n","t"," ","<","n","a","m","e",
    ">">>
S_SwitchedAgent ==
    <<"S","w","i","t","c","h","e","d"," ","a","g","e","n","t"," ","t","o",":"," ">>
S_slashMem ==
    <<"/","m","e","m">>
S_slashAgent ==
    <<"/","a","g","e","n","t">>
S_Bye ==
    <<"B","y","e",".">>

S_MEMORIES ==
    <<"[","M","E","M","O","R","I","E","S","]">>

S_AGENT ==
    <<"[","A","G","E","N","T","]">>

S_Assistant ==
    <<"A","s","s","i","s","t","a","n","t",":">>

S_exit ==
    <<"e","x","i","t">>
S_quit ==
    <<"q","u","i","t">>
S_search ==
    <<"s","e","a","r","c","h">>
S_show ==
    <<"s","h","o","w">>
S_delete ==
    <<"d","e","l","e","t","e">>
S_clear ==
    <<"c","l","e","a","r">>
K_results ==
    <<"r","e","s","u","l","t","s">>
K_id ==
    <<"i","d">>
K__id ==
    <<"_","i","d">>
K_text ==
    <<"t","e","x","t">>
K_memory ==
    <<"m","e","m","o","r","y">>
K_data ==
    <<"d","a","t","a">>
K_metadata ==
    <<"m","e","t","a","d","a","t","a">>
K_meta ==
    <<"m","e","t","a">>
K_source ==
    <<"s","o","u","r","c","e">>
K_important ==
    <<"i","m","p","o","r","t","a","n","t">>
K_role ==
    <<"r","o","l","e">>
K_content ==
    <<"c","o","n","t","e","n","t">>
K_messages ==
    <<"m","e","s","s","a","g","e","s">>
K_user_id ==
    <<"u","s","e","r","_","i","d">>
K_agent_id ==
    <<"a","g","e","n","t","_","i","d">>
K_run_id ==
    <<"r","u","n","_","i","d">>
K_query ==
    <<"q","u","e","r","y">>
K_filters ==
    <<"f","i","l","t","e","r","s">>
S_pathMemories ==
    <<"/","m","e","m","o","r","i","e","s">>
S_pathMemoriesSlash ==
    <<"/","m","e","m","o","r","i","e","s","/">>
S_pathSearch ==
    <<"/","s","e","a","r","c","h">>
S_None ==
    <<"N","o","n","e">>
S_True ==
    <<"T","r","u","e">>
S_False ==
    <<"F","a","l","s","e">>
S_objNoAttrGet ==
    <<" ","o","b","j","e","c","t"," ","h","a","s"," ","n","o"," ","a","t","t","r",
    "i","b","u","t","e"," ","'","g","e","t","'">>
S_seqItem ==
    <<"s","e","q","u","e","n","c","e"," ","i","t","e","m"," ">>
S_expectedStr ==
    <<":"," ","e","x","p","e","c","t","e","d"," ","s","t","r"," ","i","n","s","t",
    "a","n","c","e",","," ">>
S_found ==
    <<" ","f","o","u","n","d">>
S_NoneType ==
    <<"N","o","n","e","T","y","p","e">>
S_bool ==
    <<"b","o","o","l">>
S_int ==
    <<"i","n","t">>
S_str ==
    <<"s","t","r">>
S_list ==
    <<"l","i","s","t">>
S_dict ==
    <<"d","i","c","t">>

(* ---------------- Python str operations ---------------- *)

\* the characters c with c.isspace() among U+0001..U+00FF and U+0384..U+03CE,
\* the alphabet of the model: TAB, LF, VT, FF, CR, FS, GS, RS, US, SPACE,
\* NEL (U+0085) and NBSP (U+00A0)
Whitespace ==
    {
      "\t", "\n", "", "\f", "\r", "", "", "",
      "", " ", "", " "
    }

\* str.isspace() of one character
IsSpace(c) == c \in Whitespace

\* c.lower() of the characters of the alphabet that str.lower() changes
\* (capital sigma is context-sensitive, see FinalSigma)
UpperToLower ==
    ("A" :> "a") @@ ("B" :> "b") @@ ("C" :> "c") @@ ("D" :> "d")
    @@ ("E" :> "e") @@ ("F" :> "f") @@ ("G" :> "g") @@ ("H" :> "h")
    @@ ("I" :> "i") @@ ("J" :> "j") @@ ("K" :> "k") @@ ("L" :> "l")
    @@ ("M" :> "m") @@ ("N" :> "n") @@ ("O" :> "o") @@ ("P" :> "p")
    @@ ("Q" :> "q") @@ ("R" :> "r") @@ ("S" :> "s") @@ ("T" :> "t")
    @@ ("U" :> "u") @@ ("V" :> "v") @@ ("W" :> "w") @@ ("X" :> "x")
    @@ ("Y" :> "y") @@ ("Z" :> "z") @@ ("À" :> "à") @@ ("Á" :> "á")
    @@ ("Â" :> "â") @@ ("Ã" :> "ã") @@ ("Ä" :> "ä") @@ ("Å" :> "å")
    @@ ("Æ" :> "æ") @@ ("Ç" :> "ç") @@ ("È" :> "è") @@ ("É" :> "é")
    @@ ("Ê" :> "ê") @@ ("Ë" :> "ë") @@ ("Ì" :> "ì") @@ ("Í" :> "í")
    @@ ("Î" :> "î") @@ ("Ï" :> "ï") @@ ("Ð" :> "ð") @@ ("Ñ" :> "ñ")
    @@ ("Ò" :> "ò") @@ ("Ó" :> "ó") @@ ("Ô" :> "ô") @@ ("Õ" :> "õ")
    @@ ("Ö" :> "ö") @@ ("Ø" :> "ø") @@ ("Ù" :> "ù") @@ ("Ú" :> "ú")
    @@ ("Û" :> "û") @@ ("Ü" :> "ü") @@ ("Ý" :> "ý") @@ ("Þ" :> "þ")
    @@ ("Ά" :> "ά") @@ ("Έ" :> "έ") @@ ("Ή" :> "ή") @@ ("Ί" :> "ί")
    @@ ("Ό" :> "ό") @@ ("Ύ" :> "ύ") @@ ("Ώ" :> "ώ") @@ ("Α" :> "α")
    @@ ("Β" :> "β") @@ ("Γ" :> "γ") @@ ("Δ" :> "δ") @@ ("Ε" :> "ε")
    @@ ("Ζ" :> "ζ") @@ ("Η" :> "η") @@ ("Θ" :> "θ") @@ ("Ι" :> "ι")
    @@ ("Κ" :> "κ") @@ ("Λ" :> "λ") @@ ("Μ" :> "μ") @@ ("Ν" :> "ν")
    @@ ("Ξ" :> "ξ") @@ ("Ο" :> "ο") @@ ("Π" :> "π") @@ ("Ρ" :> "ρ")
    @@ ("Σ" :> "σ") @@ ("Τ" :> "τ") @@ ("Υ" :> "υ") @@ ("Φ" :> "φ")
    @@ ("Χ" :> "χ") @@ ("Ψ" :> "ψ") @@ ("Ω" :> "ω") @@ ("Ϊ" :> "ϊ")
    @@ ("Ϋ" :> "ϋ")

\* the cased characters of the alphabet (Unicode property Cased)
Cased ==
    {
      "A", "B", "C", "D", "E", "F", "G", "H",
      "I", "J", "K", "L", "M", "N", "O", "P",
      "Q", "R", "S", "T", "U", "V", "W", "X",
      "Y", "Z", "a", "b", "c", "d", "e", "f",
      "g", "h", "i", "j", "k", "l", "m", "n",
      "o", "p", "q", "r", "s", "t", "u", "v",
      "w", "x", "y", "z", "ª", "µ", "º", "À",
      "Á", "Â", "Ã", "Ä", "Å", "Æ", "Ç", "È",
      "É", "Ê", "Ë", "Ì", "Í", "Î", "Ï", "Ð",
      "Ñ", "Ò", "Ó", "Ô", "Õ", "Ö", "Ø", "Ù",
      "Ú", "Û", "Ü", "Ý", "Þ", "ß", "à", "á",
      "â", "ã", "ä", "å", "æ", "ç", "è", "é",
      "ê", "ë", "ì", "í", "î", "ï", "ð", "ñ",
      "ò", "ó", "ô", "õ", "ö", "ø", "ù", "ú",
      "û", "ü", "ý", "þ", "ÿ", "Ά", "Έ", "Ή",
      "Ί", "Ό", "Ύ", "Ώ", "ΐ", "Α", "Β", "Γ",
      "Δ", "Ε", "Ζ", "Η", "Θ", "Ι", "Κ", "Λ",
      "Μ", "Ν", "Ξ", "Ο", "Π", "Ρ", "Σ", "Τ",
      "Υ", "Φ", "Χ", "Ψ", "Ω", "Ϊ", "Ϋ", "ά",
      "έ", "ή", "ί", "ΰ", "α", "β", "γ", "δ",
      "ε", "ζ", "η", "θ", "ι", "κ", "λ", "μ",
      "ν", "ξ", "ο", "π", "ρ", "ς", "σ", "τ",
      "υ", "φ", "χ", "ψ", "ω", "ϊ", "ϋ", "ό",
      "ύ", "ώ"
    }

\* the case-ignorable characters of the alphabet (Unicode Case_Ignorable)
CaseIgnorable ==
    {
      "'", ".", ":", "^", "¨", "­", "¯", "´",
      "·", "¸", "΄", "΅", "·"
    }

\* str.lower() writes a capital sigma at s[i] as the final sigma when a cased
\* character precedes it and none follows it, case-ignorable characters
\* skipped on both sides
FinalSigma(s, i) ==
    LET before == {j \in 1..(i - 1) : s[j] \notin CaseIgnorable}
        after == {j \in (i + 1)..Len(s) : s[j] \notin CaseIgnorable}
    IN  /\ before # {}
        /\ s[CHOOSE j \in before : \A k \in before : k <= j] \in Cased
        /\ \/ after = {}
           \/ s[CHOOSE j \in after : \A k \in after : j <= k] \notin Cased

LowerChar(c) == IF c \in DOMAIN UpperToLower THEN UpperToLower[c] ELSE c

\* s.lower()
Lower(s) ==
    [i \in 1..Len(s) |->
        IF s[i] = "Σ" /\ FinalSigma(s, i) THEN "ς" ELSE LowerChar(s[i])]

\* s[i:] with a 1-based start
From(s, i) == IF i > Len(s) THEN <<>> ELSE SubSeq(s, i, Len(s))

\* index of the first non-space character at or after i, Len(s)+1 if none
SkipSpace(s, i) ==
    IF \E j \in i..Len(s) : ~IsSpace(s[j])
    THEN CHOOSE j \in i..Len(s) :
            ~IsSpace(s[j]) /\ \A k \in i..(j - 1) : IsSpace(s[k])
    ELSE Len(s) + 1

\* index of the first space character at or after i, Len(s)+1 if none
SkipWord(s, i) ==
    IF \E j \in i..Len(s) : IsSpace(s[j])
    THEN CHOOSE j \in i..Len(s) :
            IsSpace(s[j]) /\ \A k \in i..(j - 1) : ~IsSpace(s[k])
    ELSE Len(s) + 1

\* index of the last non-space character at or before j, 0 if none
LastNonSpace(s, j) ==
    IF \E i \in 1..j : ~IsSpace(s[i])
    THEN CHOOSE i \in 1..j :
            ~IsSpace(s[i]) /\ \A k \in (i + 1)..j : IsSpace(s[k])
    ELSE 0

\* s.strip()
Strip(s) ==
    LET a == SkipSpace(s, 1)
        b == LastNonSpace(s, Len(s))
    IN  IF a > b THEN <<>> ELSE SubSeq(s, a, b)

\* s.split(maxsplit=n) with sep=None: runs of whitespace separate the words;
\* after n splits the rest of the string, leading whitespace skipped and
\* trailing whitespace kept, is the last element.
RECURSIVE SplitFrom(_, _, _, _)
SplitFrom(s, i, n, acc) ==
    LET a == SkipSpace(s, i)
    IN  IF a > Len(s) THEN acc
        ELSE IF n = 0 THEN Append(acc, From(s, a))
        ELSE LET b == SkipWord(s, a)
             IN  SplitFrom(s, b, n - 1, Append(acc, SubSeq(s, a, b - 1)))

Split(s, maxsplit) == SplitFrom(s, 1, maxsplit, <<>>)

\* s.startswith(p)
StartsWith(s, p) == Len(s) >= Len(p) /\ SubSeq(s, 1, Len(p)) = p

\* k in s: k occurs at some start position of s
Contains(s, k) ==
    \E i \in 1..(Len(s) - Len(k) + 1) :
        \A j \in 1..Len(k) : s[i + j - 1] = k[j]

\* sep.join(parts) for a sequence of strings
RECURSIVE JoinFrom(_, _, _)
JoinFrom(sep, parts, i) ==
    IF i > Len(parts) THEN <<>>
    ELSE IF i = Len(parts) THEN parts[i]
    ELSE parts[i] \o sep \o JoinFrom(sep, parts, i + 1)

Join(sep, parts) == JoinFrom(sep, parts, 1)

Digits == <<"0","1","2","3","4","5","6","7","8","9">>

\* str(n) for an int
RECURSIVE NatStr(_)
NatStr(n) == IF n < 10 THEN <<Digits[n + 1]>>
             ELSE NatStr(n \div 10) \o <<Digits[(n % 10) + 1]>>

IntStr(n) == IF n < 0 THEN <<"-">> \o NatStr(0 - n) ELSE NatStr(n)

(* ---------------- Python values ---------------- *)

PyNone == [t |-> "None", v |-> 0]
PyBool(b) == [t |-> "bool", v |-> b]
PyInt(n) == [t |-> "int", v |-> n]
PyStr(s) == [t |-> "str", v |-> s]
PyList(xs) == [t |-> "list", v |-> xs]
PyDict(kvs) == [t |-> "dict", v |-> kvs]

IsDict(x) == x.t = "dict"
IsList(x) == x.t = "list"
IsStr(x) == x.t = "str"

\* bool(x)
Truthy(x) ==
    CASE x.t = "None" -> FALSE
      [] x.t = "bool" -> x.v
      [] x.t = "int" -> x.v # 0
      [] OTHER -> Len(x.v) > 0

\* a or b
PyOr(a, b) == IF Truthy(a) THEN a ELSE b

\* k in d
HasKey(d, k) == \E i \in 1..Len(d.v) : d.v[i][1] = k

\* d.get(k, default)
GetDefault(d, k, default) ==
    IF HasKey(d, k)
    THEN d.v[CHOOSE i \in 1..Len(d.v) : d.v[i][1] = k][2]
    ELSE default

\* d.get(k)
Get(d, k) == GetDefault(d, k, PyNone)

\* type(x).__name__
TypeName(x) ==
    CASE x.t = "None" -> S_NoneType
      [] x.t = "bool" -> S_bool
      [] x.t = "int" -> S_int
      [] x.t = "str" -> S_str
      [] x.t = "list" -> S_list
      [] OTHER -> S_dict

\* the characters of the alphabet that repr() of a str writes as an escape
ReprEscapes ==
    ("" :> <<"\\", "x", "0", "1">>) @@ ("" :> <<"\\", "x", "0", "2">>)
    @@ ("" :> <<"\\", "x", "0", "3">>) @@ ("" :> <<"\\", "x", "0", "4">>) @@ ("" :> <<"\\", "x", "0", "5">>)
    @@ ("" :> <<"\\", "x", "0", "6">>) @@ ("" :> <<"\\", "x", "0", "7">>) @@ ("" :> <<"\\", "x", "0", "8">>)
    @@ ("\t" :> <<"\\", "t">>) @@ ("\n" :> <<"\\", "n">>) @@ ("" :> <<"\\", "x", "0", "b">>)
    @@ ("\f" :> <<"\\", "x", "0", "c">>) @@ ("\r" :> <<"\\", "r">>) @@ ("" :> <<"\\", "x", "0", "e">>)
    @@ ("" :> <<"\\", "x", "0", "f">>) @@ ("" :> <<"\\", "x", "1", "0">>) @@ ("" :> <<"\\", "x", "1", "1">>)
    @@ ("" :> <<"\\", "x", "1", "2">>) @@ ("" :> <<"\\", "x", "1", "3">>) @@ ("" :> <<"\\", "x", "1", "4">>)
    @@ ("" :> <<"\\", "x", "1", "5">>) @@ ("" :> <<"\\", "x", "1", "6">>) @@ ("" :> <<"\\", "x", "1", "7">>)
    @@ ("" :> <<"\\", "x", "1", "8">>) @@ ("" :> <<"\\", "x", "1", "9">>) @@ ("" :> <<"\\", "x", "1", "a">>)
    @@ ("" :> <<"\\", "x", "1", "b">>) @@ ("" :> <<"\\", "x", "1", "c">>) @@ ("" :> <<"\\", "x", "1", "d">>)
    @@ ("" :> <<"\\", "x", "1", "e">>) @@ ("" :> <<"\\", "x", "1", "f">>) @@ ("\\" :> <<"\\", "\\">>)
    @@ ("" :> <<"\\", "x", "7", "f">>) @@ ("" :> <<"\\", "x", "8", "0">>) @@ ("" :> <<"\\", "x", "8", "1">>)
    @@ ("" :> <<"\\", "x", "8", "2">>) @@ ("" :> <<"\\", "x", "8", "3">>) @@ ("" :> <<"\\", "x", "8", "4">>)
    @@ ("" :> <<"\\", "x", "8", "5">>) @@ ("" :> <<"\\", "x", "8", "6">>) @@ ("" :> <<"\\", "x", "8", "7">>)
    @@ ("" :> <<"\\", "x", "8", "8">>) @@ ("" :> <<"\\", "x", "8", "9">>) @@ ("" :> <<"\\", "x", "8", "a">>)
    @@ ("" :> <<"\\", "x", "8", "b">>) @@ ("" :> <<"\\", "x", "8", "c">>) @@ ("" :> <<"\\", "x", "8", "d">>)
    @@ ("" :> <<"\\", "x", "8", "e">>) @@ ("" :> <<"\\", "x", "8", "f">>) @@ ("" :> <<"\\", "x", "9", "0">>)
    @@ ("" :> <<"\\", "x", "9", "1">>) @@ ("" :> <<"\\", "x", "9", "2">>) @@ ("" :> <<"\\", "x", "9", "3">>)
    @@ ("" :> <<"\\", "x", "9", "4">>) @@ ("" :> <<"\\", "x", "9", "5">>) @@ ("" :> <<"\\", "x", "9", "6">>)
    @@ ("" :> <<"\\", "x", "9", "7">>) @@ ("" :> <<"\\", "x", "9", "8">>) @@ ("" :> <<"\\", "x", "9", "9">>)
    @@ ("" :> <<"\\", "x", "9", "a">>) @@ ("" :> <<"\\", "x", "9", "b">>) @@ ("" :> <<"\\", "x", "9", "c">>)
    @@ ("" :> <<"\\", "x", "9", "d">>) @@ ("" :> <<"\\", "x", "9", "e">>) @@ ("" :> <<"\\", "x", "9", "f">>)
    @@ (" " :> <<"\\", "x", "a", "0">>) @@ ("­" :> <<"\\", "x", "a", "d">>)
    @@ ("΋" :> <<"\\", "u", "0", "3", "8", "b">>) @@ ("΍" :> <<"\\", "u", "0", "3", "8", "d">>)
    @@ ("΢" :> <<"\\", "u", "0", "3", "a", "2">>)

\* one character inside repr() of a str that is quoted with '
EscChar(c) ==
    IF c = "'" THEN <<"\\", "'">>
    ELSE IF c \in DOMAIN ReprEscapes THEN ReprEscapes[c]
    ELSE <<c>>

RECURSIVE EscFrom(_, _, _)
EscFrom(s, i, q) ==
    IF i > Len(s) THEN <<>>
    ELSE (IF s[i] = "'" /\ q = "\"" THEN <<"'">> ELSE EscChar(s[i]))
         \o EscFrom(s, i + 1, q)

\* repr(s) for a str: ' quotes unless s holds a ' and no "
StrRepr(s) ==
    LET q == IF (\E i \in 1..Len(s) : s[i] = "'")
                /\ ~(\E i \in 1..Len(s) : s[i] = "\"")
             THEN "\"" ELSE "'"
    IN  <<q>> \o EscFrom(s, 1, q) \o <<q>>

\* repr(x)
RECURSIVE Repr(_)
RECURSIVE ReprItems(_, _)
RECURSIVE ReprPairs(_, _)
ReprItems(xs, i) ==
    IF i > Len(xs) THEN <<>>
    ELSE Repr(xs[i]) \o (IF i < Len(xs) THEN <<",", " ">> ELSE <<>>)
         \o ReprItems(xs, i + 1)
ReprPairs(kvs, i) ==
    IF i > Len(kvs) THEN <<>>
    ELSE StrRepr(kvs[i][1]) \o <<":", " ">> \o Repr(kvs[i][2])
         \o (IF i < Len(kvs) THEN <<",", " ">> ELSE <<>>)
         \o ReprPairs(kvs, i + 1)
Repr(x) ==
    CASE x.t = "None" -> S_None
      [] x.t = "bool" -> (IF x.v THEN S_True ELSE S_False)
      [] x.t = "int" -> IntStr(x.v)
      [] x.t = "str" -> StrRepr(x.v)
      [] x.t = "list" -> <<"[">> \o ReprItems(x.v, 1) \o <<"]">>
      [] OTHER -> <<"{">> \o ReprPairs(x.v, 1) \o <<"}">>

\* str(x), also what an f-string field {x} renders
ToStr(x) == IF x.t = "str" THEN x.v ELSE Repr(x)

(* ---------------- results of calls that may raise ---------------- *)

NoExc == [type |-> "", msg |-> <<>>, raised_in |-> ""]
Exc(type, msg, where) == [type |-> type, msg |-> msg, raised_in |-> where]
Ok(v) == [ok |-> TRUE, val |-> v, exc |-> NoExc]
Raise(e) == [ok |-> FALSE, val |-> PyNone, exc |-> e]

\* isinstance(e, Exception): KeyboardInterrupt and SystemExit derive from
\* BaseException only, so "except Exception" lets them pass
IsException(e) == e.type \notin {"KeyboardInterrupt", "SystemExit"}

\* try: <call with outcome o> except Exception as e: return f"{tag}{e}",
\* for an outcome o that raised
Except(tag, o) == IF IsException(o.exc) THEN Ok(tag \o o.exc.msg) ELSE o

\* x.get: AttributeError when x is no dict
NoGet(x) ==
    Exc("AttributeError", <<"'">> \o TypeName(x) \o <<"'">> \o S_objNoAttrGet,
        "format_memories")

(* ---------------- Memory formatting helpers ---------------- *)

\* _normalize_mem_items(obj): the Python list it returns, as a sequence
_normalize_mem_items(obj) ==
    IF obj.t = "None" THEN <<>>
    ELSE IF IsList(obj) THEN obj.v
    ELSE IF IsDict(obj)
         THEN IF HasKey(obj, K_results) /\ IsList(Get(obj, K_results))
              THEN Get(obj, K_results).v
              ELSE <<obj>>
    ELSE <<obj>>

\* ", ".join(flags): TypeError at the first flag that is no str
RECURSIVE FirstNonStr(_, _)
FirstNonStr(flags, i) ==
    IF i > Len(flags) THEN 0
    ELSE IF ~IsStr(flags[i]) THEN i ELSE FirstNonStr(flags, i + 1)

JoinFlags(flags) ==
    LET bad == FirstNonStr(flags, 1)
    IN  IF bad # 0
        THEN Raise(Exc("TypeError",
                       S_seqItem \o IntStr(bad - 1) \o S_expectedStr
                         \o TypeName(flags[bad]) \o S_found,
                       "format_memories"))
        ELSE Ok(Join(<<",", " ">>, [i \in 1..Len(flags) |-> flags[i].v]))

\* the body of the loop of format_memories for one dict m: the line appended
FormatRecord(m) ==
    LET memory_id == PyOr(PyOr(Get(m, K_id), Get(m, K__id)), PyStr(<<"?">>))
        t12 == PyOr(Get(m, K_text), Get(m, K_memory))
        data == GetDefault(m, K_data, PyDict(<<>>))
        m12 == PyOr(Get(m, K_metadata), Get(m, K_meta))
        meta == PyOr(m12, PyDict(<<>>))
        source == PyOr(Get(meta, K_source), PyStr(<<>>))
        important == Get(meta, K_important)
        flags == (IF Truthy(source) THEN <<source>> ELSE <<>>)
                   \o (IF Truthy(important) THEN <<PyStr(S_important)>> ELSE <<>>)
        text == IF Truthy(t12) THEN t12
                ELSE PyOr(Get(data, K_memory), PyStr(ToStr(m)))
        prefix == <<"[">> \o ToStr(memory_id) \o <<"]">>
        joined == JoinFlags(flags)
    IN  IF ~Truthy(t12) /\ ~IsDict(data) THEN Raise(NoGet(data))
        ELSE IF ~IsDict(meta) THEN Raise(NoGet(meta))
        ELSE IF Len(flags) = 0 THEN Ok(prefix \o <<" ">> \o ToStr(text))
        ELSE IF ~joined.ok THEN joined
        ELSE Ok(prefix \o <<" ", "(">> \o joined.val \o <<")">>
                  \o <<" ">> \o ToStr(text))

\* the loop of format_memories over items[:limit], from index i on
RECURSIVE FormatLines(_, _, _, _)
FormatLines(items, i, n, lines) ==
    IF i > n THEN Ok(lines)
    ELSE IF ~IsDict(items[i])
         THEN FormatLines(items, i + 1, n, Append(lines, ToStr(items[i])))
    ELSE LET r == FormatRecord(items[i])
         IN  IF ~r.ok THEN r
             ELSE FormatLines(items, i + 1, n, Append(lines, r.val))

\* format_memories(memories, limit), limit >= 0
format_memories(memories, limit) ==
    LET items == _normalize_mem_items(memories)
        n == IF limit < Len(items) THEN limit ELSE Len(items)
        r == FormatLines(items, 1, n, <<>>)
    IN  IF Len(items) = 0 THEN Ok(S_NoMemoriesFound)
        ELSE IF ~r.ok THEN r
        ELSE Ok(Join(<<"\n">>, r.val))

(* ---------------- Importance / storage heuristics ---------------- *)

keywords == <<
    <<"r","e","m","e","m","b","e","r">>,
    <<"n","o","t","e"," ","t","h","i","s">>,
    <<"i","m","p","o","r","t","a","n","t">>,
    <<"p","e","r","m","a","n","e","n","t">>,
    <<"p","r","e","f","e","r","e","n","c","e">>,
    <<"g","o","a","l">>,
    <<"t","a","r","g","e","t">>,
    <<"s","c","h","e","d","u","l","e">>,
    <<"b","u","d","g","e","t">> >>

LongInput == 140

\* should_store_memory with the length test off by one (>= for >)
should_store_memory_OffByOne(user_input, answer) ==
    LET text == Lower(user_input \o <<" ">> \o answer)
    IN  IF \E k \in 1..Len(keywords) : Contains(text, keywords[k]) THEN TRUE
        ELSE IF Len(user_input) >= LongInput THEN TRUE
        ELSE FALSE

\* should_store_memory(user_input, answer)
should_store_memory(user_input, answer) ==
    LET text == Lower(user_input \o <<" ">> \o answer)
    IN  IF \E k \in 1..Len(keywords) : Contains(text, keywords[k]) THEN TRUE
        ELSE IF Len(user_input) > LongInput THEN TRUE
        ELSE FALSE

(* ---------------- Mem0Client: the request each method sends ---------------- *)

\* mem_client = Mem0Client(default_user_id="jose", default_agent_id=None)
default_user_id == PyStr(S_jose)
default_agent_id == PyNone

Request(op, method, path, data) ==
    [op |-> op, method |-> method, path |-> path, data |-> data]

\* the user_id / agent_id / run_id entries of a payload or of the params
Identifiers(user_id, agent_id, run_id) ==
    (IF Truthy(user_id) \/ Truthy(default_user_id)
     THEN << <<K_user_id, PyOr(user_id, default_user_id)>> >> ELSE <<>>)
    \o (IF Truthy(agent_id) \/ Truthy(default_agent_id)
        THEN << <<K_agent_id, PyOr(agent_id, default_agent_id)>> >> ELSE <<>>)
    \o (IF Truthy(run_id) THEN << <<K_run_id, run_id>> >> ELSE <<>>)

add_memories(messages, user_id, agent_id, run_id, metadata) ==
    Request("add_memories", "POST", S_pathMemories,
            PyDict(<< <<K_messages, messages>> >>
                   \o Identifiers(user_id, agent_id, run_id)
                   \o (IF Truthy(metadata) THEN << <<K_metadata, metadata>> >>
                       ELSE <<>>)))

list_memories(user_id, agent_id, run_id) ==
    Request("list_memories", "GET", S_pathMemories,
            PyDict(Identifiers(user_id, agent_id, run_id)))

get_memory(memory_id) ==
    Request("get_memory", "GET", S_pathMemoriesSlash \o memory_id, PyDict(<<>>))

delete_memory(memory_id) ==
    Request("delete_memory", "DELETE", S_pathMemoriesSlash \o memory_id,
            PyDict(<<>>))

delete_all(user_id, agent_id, run_id) ==
    Request("delete_all", "DELETE", S_pathMemories,
            PyDict(Identifiers(user_id, agent_id, run_id)))

search(query, user_id, agent_id, run_id, filters) ==
    Request("search", "POST", S_pathSearch,
            PyDict(<< <<K_query, PyStr(query)>> >>
                   \o Identifiers(user_id, agent_id, run_id)
                   \o (IF Truthy(filters) THEN << <<K_filters, filters>> >>
                       ELSE <<>>)))

\* one round trip: the request sent and what requests/_handle gave back
Call(req, o) == [req |-> req, outcome |-> o]

(* ---------------- /mem commands ---------------- *)

\* what a handler did: the value returned (or the exception raised out of
\* it), the memory-store round trips made, and CURRENT_AGENT_ID afterwards
Handled(ret, calls, agent) == [ret |-> ret, calls |-> calls, agent |-> agent]

\* handle_mem_command without the len(parts) == 2 tests of search, show and
\* delete: a missing argument is sent as the empty string
handle_mem_command_NoArgCheck(cmd, agent, o) ==
    LET parts == Split(Strip(cmd), 2)
        sub == IF Len(parts) >= 2 THEN Lower(parts[2]) ELSE <<>>
        arg == IF Len(parts) >= 3 THEN parts[3] ELSE <<>>
    IN  IF Len(parts) = 1
        THEN Handled(IF ~o.ok THEN Except(S_ListErr, o)
                     ELSE format_memories(o.val, 30),
                     <<Call(list_memories(PyNone, PyStr(agent), PyNone), o)>>,
                     agent)
        ELSE IF sub = S_search
        THEN Handled(IF ~o.ok THEN Except(S_SearchErr, o)
                     ELSE format_memories(o.val, 30),
                     <<Call(search(arg, PyNone, PyStr(agent), PyNone, PyNone),
                            o)>>,
                     agent)
        ELSE IF sub = S_show
        THEN Handled(IF ~o.ok THEN Except(S_GetErr, o)
                     ELSE format_memories(o.val, 1),
                     <<Call(get_memory(arg), o)>>,
                     agent)
        ELSE IF sub = S_delete
        THEN Handled(IF ~o.ok THEN Except(S_DeleteErr, o)
                     ELSE Ok(S_DeletedMemory \o arg \o <<":", " ">>
                               \o ToStr(o.val)),
                     <<Call(delete_memory(arg), o)>>,
                     agent)
        ELSE IF sub = S_clear
        THEN Handled(IF ~o.ok THEN Except(S_ClearErr, o)
                     ELSE Ok(S_ClearedAll \o agent \o S_quoteColonSpace
                               \o ToStr(o.val)),
                     <<Call(delete_all(PyNone, PyStr(agent), PyNone), o)>>,
                     agent)
        ELSE Handled(Ok(S_UnknownMem), <<>>, agent)

\* handle_mem_command(cmd) with CURRENT_AGENT_ID = agent, where o is what the
\* memory store answers if it is called
handle_mem_command(cmd, agent, o) ==
    LET parts == Split(Strip(cmd), 2)
        sub == IF Len(parts) >= 2 THEN Lower(parts[2]) ELSE <<>>
    IN  IF Len(parts) = 1
        THEN Handled(IF ~o.ok THEN Except(S_ListErr, o)
                     ELSE format_memories(o.val, 30),
                     <<Call(list_memories(PyNone, PyStr(agent), PyNone), o)>>,
                     agent)
        ELSE IF sub = S_search
        THEN IF Len(parts) = 2 THEN Handled(Ok(S_UsageSearch), <<>>, agent)
             ELSE Handled(IF ~o.ok THEN Except(S_SearchErr, o)
                          ELSE format_memories(o.val, 30),
                          <<Call(search(parts[3], PyNone, PyStr(agent), PyNone,
                                        PyNone), o)>>,
                          agent)
        ELSE IF sub = S_show
        THEN IF Len(parts) = 2 THEN Handled(Ok(S_UsageShow), <<>>, agent)
             ELSE Handled(IF ~o.ok THEN Except(S_GetErr, o)
                          ELSE format_memories(o.val, 1),
                          <<Call(get_memory(parts[3]), o)>>,
                          agent)
        ELSE IF sub = S_delete
        THEN IF Len(parts) = 2 THEN Handled(Ok(S_UsageDelete), <<>>, agent)
             ELSE Handled(IF ~o.ok THEN Except(S_DeleteErr, o)
                          ELSE Ok(S_DeletedMemory \o parts[3] \o <<":", " ">>
                                    \o ToStr(o.val)),
                          <<Call(delete_memory(parts[3]), o)>>,
                          agent)
        ELSE IF sub = S_clear
        THEN Handled(IF ~o.ok THEN Except(S_ClearErr, o)
                     ELSE Ok(S_ClearedAll \o agent \o S_quoteColonSpace
                               \o ToStr(o.val)),
                     <<Call(delete_all(PyNone, PyStr(agent), PyNone), o)>>,
                     agent)
        ELSE Handled(Ok(S_UnknownMem), <<>>, agent)

(* ---------------- /agent commands ---------------- *)

\* handle_agent_command where a bare /agent falls back to the default agent
handle_agent_command_Reset(cmd, agent) ==
    LET parts == Split(Strip(cmd), 1)
        new_agent == Strip(parts[2])
    IN  IF Len(parts) = 1
        THEN Handled(Ok(S_CurrentAgent \o S_vera), <<>>, S_vera)
        ELSE IF Len(new_agent) = 0
        THEN Handled(Ok(S_UsageAgent), <<>>, agent)
        ELSE Handled(Ok(S_SwitchedAgent \o new_agent), <<>>, new_agent)

\* handle_agent_command(cmd) with CURRENT_AGENT_ID = agent
handle_agent_command(cmd, agent) ==
    LET parts == Split(Strip(cmd), 1)
        new_agent == Strip(parts[2])
    IN  IF Len(parts) = 1
        THEN Handled(Ok(S_CurrentAgent \o agent), <<>>, agent)
        ELSE IF Len(new_agent) = 0
        THEN Handled(Ok(S_UsageAgent), <<>>, agent)
        ELSE Handled(Ok(S_SwitchedAgent \o new_agent), <<>>, new_agent)

(* ---------------- chat_once, step by step ---------------- *)

\* step 1: search_results after the try/except around mem_client.search
chat_search_results(o) ==
    IF o.ok THEN PyOr(o.val, PyList(<<>>)) ELSE PyList(<<>>)

Message(role, content) ==
    PyDict(<< <<K_role, PyStr(role)>>, <<K_content, PyStr(content)>> >>)

\* step 2: the prompt built around the memory block
chat_messages(user_input, agent, memory_block) ==
    << Message(S_system, S_SYSTEM_PROMPT),
       Message(S_system, S_CurrentAgent \o agent),
       Message(S_system, S_RelevantPrior \o memory_block),
       Message(S_user, user_input) >>

\* step 3: the arguments of oa_client.chat.completions.create; the
\* temperature 0.4 is kept in tenths
chat_completion_request(messages) ==
    [model |-> S_model, messages |-> messages, temperature_tenths |-> 4]

\* chat_add_request that leaves the namespace to the start-up agent
chat_add_request_StartAgent(user_input, answer, agent) ==
    add_memories(PyList(<<Message(S_user, user_input),
                          Message(S_assistant, answer)>>),
                 PyNone, PyStr(S_vera), PyNone,
                 PyDict(<< <<K_source, PyStr(S_local_assistant)>>,
                           <<K_important,
                             PyBool(should_store_memory(user_input, answer))>> >>))

\* step 4: the add request of the turn
chat_add_request(user_input, answer, agent) ==
    add_memories(PyList(<<Message(S_user, user_input),
                          Message(S_assistant, answer)>>),
                 PyNone, PyStr(agent), PyNone,
                 PyDict(<< <<K_source, PyStr(S_local_assistant)>>,
                           <<K_important,
                             PyBool(should_store_memory(user_input, answer))>> >>))

(* ---------------- textwrap.fill, as main prints a reply ---------------- *)

\* textwrap._whitespace: TAB, LF, VT, FF, CR and SPACE
_whitespace ==
    {
      "\t", "\n", "", "\f", "\r", " "
    }

\* the characters of the alphabet that the regular expression \w matches
WordChars ==
    {
      "0", "1", "2", "3", "4", "5", "6", "7",
      "8", "9", "A", "B", "C", "D", "E", "F",
      "G", "H", "I", "J", "K", "L", "M", "N",
      "O", "P", "Q", "R", "S", "T", "U", "V",
      "W", "X", "Y", "Z", "_", "a", "b", "c",
      "d", "e", "f", "g", "h", "i", "j", "k",
      "l", "m", "n", "o", "p", "q", "r", "s",
      "t", "u", "v", "w", "x", "y", "z", "ª",
      "²", "³", "µ", "¹", "º", "¼", "½", "¾",
      "À", "Á", "Â", "Ã", "Ä", "Å", "Æ", "Ç",
      "È", "É", "Ê", "Ë", "Ì", "Í", "Î", "Ï",
      "Ð", "Ñ", "Ò", "Ó", "Ô", "Õ", "Ö", "Ø",
      "Ù", "Ú", "Û", "Ü", "Ý", "Þ", "ß", "à",
      "á", "â", "ã", "ä", "å", "æ", "ç", "è",
      "é", "ê", "ë", "ì", "í", "î", "ï", "ð",
      "ñ", "ò", "ó", "ô", "õ", "ö", "ø", "ù",
      "ú", "û", "ü", "ý", "þ", "ÿ", "Ά", "Έ",
      "Ή", "Ί", "Ό", "Ύ", "Ώ", "ΐ", "Α", "Β",
      "Γ", "Δ", "Ε", "Ζ", "Η", "Θ", "Ι", "Κ",
      "Λ", "Μ", "Ν", "Ξ", "Ο", "Π", "Ρ", "Σ",
      "Τ", "Υ", "Φ", "Χ", "Ψ", "Ω", "Ϊ", "Ϋ",
      "ά", "έ", "ή", "ί", "ΰ", "α", "β", "γ",
      "δ", "ε", "ζ", "η", "θ", "ι", "κ", "λ",
      "μ", "ν", "ξ", "ο", "π", "ρ", "ς", "σ",
      "τ", "υ", "φ", "χ", "ψ", "ω", "ϊ", "ϋ",
      "ό", "ύ", "ώ"
    }

\* the characters [\w!"'&.,?] of the word separator pattern
WordPunct == WordChars \cup {"!", "\"", "'", "&", ".", ",", "?"}

\* s.expandtabs(tabsize) from s[i] on, col the column reached: a tab fills up
\* to the next tab stop, a line feed or carriage return starts column 0
RECURSIVE ExpandFrom(_, _, _, _)
ExpandFrom(s, i, col, tabsize) ==
    LET stops == {j \in i..Len(s) : s[j] \in {"\t", "\n", "\r"}}
        j == CHOOSE j \in stops : \A k \in stops : j <= k
        c == col + (j - i)
        pad == IF tabsize > 0 THEN tabsize - (c % tabsize) ELSE 0
    IN  IF stops = {} THEN From(s, i)
        ELSE IF s[j] = "\t"
        THEN SubSeq(s, i, j - 1) \o [k \in 1..pad |-> " "]
               \o ExpandFrom(s, j + 1, c + pad, tabsize)
        ELSE SubSeq(s, i, j) \o ExpandFrom(s, j + 1, 0, tabsize)

\* TextWrapper._munge_whitespace(text): tabs expanded to 8 columns, then every
\* character of _whitespace written as a space
_munge_whitespace(text) ==
    LET t == ExpandFrom(text, 1, 0, 8)
    IN  SubSeq([i \in 1..Len(t) |->
                  IF t[i] \in _whitespace THEN " " ELSE t[i]], 1, Len(t))

\* t[k] is one of the characters [^\d\W] of the word separator pattern
LetterAt(t, k) ==
    /\ k >= 1
    /\ k <= Len(t)
    /\ t[k] \in WordChars
    /\ ~(\E d \in 1..Len(Digits) : Digits[d] = t[k])

\* -{2,}(?=\w) at t[j]: a run of two or more hyphens with a word character
\* after it; the index after the run, 0 when the pattern does not match
DashEnd(t, j) ==
    LET others == {k \in j..Len(t) : t[k] # "-"}
        e == CHOOSE k \in others : \A m \in others : k <= m
    IN  IF others # {} /\ e >= j + 2 /\ t[e] \in WordChars THEN e ELSE 0

\* the hyphen t[j] ends a chunk: letters stand before it, as xx- or x-x-,
\* and after it, as xx or x-x
HyphenBreak(t, j) ==
    /\ j <= Len(t)
    /\ t[j] = "-"
    /\ LetterAt(t, j - 1)
    /\ \/ LetterAt(t, j - 2)
       \/ j >= 4 /\ t[j - 2] = "-" /\ LetterAt(t, j - 3)
    /\ LetterAt(t, j + 1)
    /\ \/ LetterAt(t, j + 2)
       \/ j + 3 <= Len(t) /\ t[j + 2] = "-" /\ LetterAt(t, j + 3)

\* the index after the chunk of wordsep_re that starts at t[i]: a run of
\* whitespace, an em-dash, or the shortest word that ends after a hyphen
\* between letters, at the end of the text, before whitespace, or before an
\* em-dash that follows a word character
ChunkEnd(t, i) ==
    LET solid == {j \in i..Len(t) : t[j] \notin _whitespace}
        ends == {j \in (i + 1)..(Len(t) + 1) :
                    \/ HyphenBreak(t, j)
                    \/ j > Len(t)
                    \/ t[j] \in _whitespace
                    \/ t[j - 1] \in WordPunct /\ DashEnd(t, j) # 0}
        e == CHOOSE j \in ends : \A k \in ends : j <= k
    IN  IF t[i] \in _whitespace
        THEN IF solid = {} THEN Len(t) + 1
             ELSE CHOOSE j \in solid : \A k \in solid : j <= k
        ELSE IF i > 1 /\ t[i - 1] \in WordPunct /\ DashEnd(t, i) # 0
        THEN DashEnd(t, i)
        ELSE IF HyphenBreak(t, e) THEN e + 1 ELSE e

\* TextWrapper._split(text): the chunks of the text from t[i] on
RECURSIVE _split(_, _)
_split(t, i) ==
    IF i > Len(t) THEN <<>>
    ELSE <<SubSeq(t, i, ChunkEnd(t, i) - 1)>> \o _split(t, ChunkEnd(t, i))

\* sum(map(len, chunks[:n]))
RECURSIVE TotalLen(_, _)
TotalLen(chunks, n) ==
    IF n = 0 THEN 0 ELSE Len(chunks[n]) + TotalLen(chunks, n - 1)

\* TextWrapper._handle_long_word: how many characters of a chunk too long for
\* any line go onto a line with space_left columns left; the break comes after
\* the last hyphen that fits and has a non-hyphen before it, if there is one
_handle_long_word(chunk, space_left) ==
    LET hy == {h \in 1..space_left : h <= Len(chunk) /\ chunk[h] = "-"}
        last == CHOOSE h \in hy : \A k \in hy : k <= h
    IN  IF /\ Len(chunk) > space_left
           /\ hy # {}
           /\ last > 1
           /\ \E k \in 1..(last - 1) : chunk[k] # "-"
        THEN last
        ELSE space_left

\* TextWrapper._wrap_chunks(chunks): the lines, given those made so far
RECURSIVE _wrap_chunks(_, _, _)
_wrap_chunks(chunks, lines, width) ==
    LET IsBlank(chunk) == Strip(chunk) = <<>>
        cs == IF IsBlank(chunks[1]) /\ lines # <<>>
              THEN Tail(chunks) ELSE chunks
        fits == {n \in 0..Len(cs) : TotalLen(cs, n) <= width}
        n == CHOOSE m \in fits : \A k \in fits : k <= m
        long == n < Len(cs) /\ Len(cs[n + 1]) > width
        end == IF long
               THEN _handle_long_word(cs[n + 1], width - TotalLen(cs, n))
               ELSE 0
        cur_line == SubSeq(cs, 1, n)
                      \o (IF long THEN <<SubSeq(cs[n + 1], 1, end)>> ELSE <<>>)
        rest == IF long
                THEN <<From(cs[n + 1], end + 1)>> \o SubSeq(cs, n + 2, Len(cs))
                ELSE SubSeq(cs, n + 1, Len(cs))
        kept == IF cur_line # <<>> /\ IsBlank(cur_line[Len(cur_line)])
                THEN SubSeq(cur_line, 1, Len(cur_line) - 1)
                ELSE cur_line
    IN  IF chunks = <<>> THEN lines
        ELSE _wrap_chunks(rest,
                          IF kept # <<>>
                          THEN Append(lines, Join(<<>>, kept)) ELSE lines,
                          width)

\* textwrap.fill(text, width)
fill(text, width) ==
    Join(<<"\n">>,
         _wrap_chunks(_split(_munge_whitespace(text), 1), <<>>, width))


(* ---------------- inputs ---------------- *)

\* n times the character x
Xs(n) == [i \in 1..n |-> "x"]

\* the input lines typed at the prompt, as input() returns them
Lines == <<
    <<"/","m","e","m">>,
    <<" "," ","/","m","e","m"," "," ">>,
    <<"/","m","e","m","o","r","y">>,
    <<"/","m","e","m"," ","s","e","a","r","c","h">>,
    <<"/","m","e","m"," ","s","e","a","r","c","h"," ","h","e","l","l","o"," ","w","o","r","l","d">>,
    <<"/","m","e","m"," ","S","E","A","R","C","H"," ","t","e","a"," ">>,
    <<"/","m","e","m"," ","s","h","o","w">>,
    <<"/","m","e","m","\t","s","h","o","w"," "," ","m","1">>,
    <<"/","m","e","m"," ","d","e","l","e","t","e">>,
    <<"/","m","e","m"," ","d","e","l","e","t","e"," ","m","1">>,
    <<"/","m","e","m"," ","c","l","e","a","r">>,
    <<"/","m","e","m"," ","C","l","e","a","r"," ","n","o","w">>,
    <<"/","m","e","m"," ","b","o","g","u","s">>,
    <<"/","m","e","m"," ","l","i","s","t"," ","a","l","l"," ","h","e","r","e">>,
    <<"/","a","g","e","n","t">>,
    <<"/","a","g","e","n","t"," "," "," ">>,
    <<"/","a","g","e","n","t"," ","b","o","b">>,
    <<" ","/","a","g","e","n","t"," "," ","x"," ","y"," ">>,
    <<"/","a","g","e","n","t","s"," ","b","o","b">>,
    <<"h","i">>,
    <<"M","y"," ","f","a","v","o","r","i","t","e"," ","c","o","l","o","r"," ","i","s"," ","b","l","u","e",","," ","r","e","m","e","m","b","e","r"," ","t","h","a","t">>,
    <<"R","E","M","E","M","B","E","R"," ","m","i","l","k">>,
    <<"t","a","k","e"," ","n","o","t","e">>,
    <<>>,
    <<"e","x","i","t">>,
    <<" ","Q","U","I","T"," ">>,
    <<"e","x","i","t","\r">>,
    <<"\r","/","a","g","e","n","t"," ","b","o","b">>,
    <<"/","a","g","e","n","t"," ","\r","\f">>,
    <<"/","m","e","m","\f","S","h","o","w","\r","m","1","\r">>,
    <<"N","O","T","E","\r","C","A","F","É">>,
    Xs(LongInput),
    Xs(LongInput + 1) >>

\* what the memory store can answer: decoded JSON, or the raw text
Responses == <<
    PyNone,
    PyList(<<>>),
    PyDict(<<<<<<"r","e","s","u","l","t","s">>,PyList(<<>>)>>>>),
    PyStr(<<"p","l","a","i","n"," ","t","e","x","t">>),
    PyInt(42),
    PyList(<<PyDict(<<<<<<"i","d">>,PyStr(<<"m","1">>)>>,<<<<"t","e","x","t">>,PyStr(<<"l","i","k","e","s"," ","E","T","F","s">>)>>,<<<<"m","e","t","a","d","a","t","a">>,PyDict(<<<<<<"s","o","u","r","c","e">>,PyStr(<<"c","h","a","t">>)>>,<<<<"i","m","p","o","r","t","a","n","t">>,PyBool(TRUE)>>>>)>>>>)>>),
    PyDict(<<<<<<"i","d">>,PyStr(<<"m","2">>)>>,<<<<"m","e","m","o","r","y">>,PyStr(<<"l","i","k","e","s"," ","t","e","a">>)>>>>),
    PyDict(<<<<<<"r","e","s","u","l","t","s">>,PyList(<<PyDict(<<<<<<"i","d">>,PyStr(<<"m","1">>)>>,<<<<"t","e","x","t">>,PyStr(<<"a">>)>>>>),PyDict(<<<<<<"_","i","d">>,PyInt(9)>>,<<<<"d","a","t","a">>,PyDict(<<<<<<"m","e","m","o","r","y">>,PyStr(<<"n","e","s","t","e","d">>)>>>>)>>,<<<<"m","e","t","a">>,PyDict(<<<<<<"i","m","p","o","r","t","a","n","t">>,PyInt(1)>>>>)>>>>)>>)>>>>),
    PyList(<<PyStr(<<"a">>),PyStr(<<"b">>),PyStr(<<"c">>),PyStr(<<"d">>),PyStr(<<"e">>),PyStr(<<"f">>),PyStr(<<"g">>),PyStr(<<"h">>),PyStr(<<"i">>)>>),
    PyList(<<PyDict(<<<<<<"i","d">>,PyStr(<<"m","3">>)>>,<<<<"d","a","t","a">>,PyStr(<<"x">>)>>>>)>>),
    PyList(<<PyDict(<<<<<<"d","a","t","a">>,PyNone>>>>)>>),
    PyList(<<PyDict(<<<<<<"i","d">>,PyStr(<<"m","4">>)>>,<<<<"t","e","x","t">>,PyStr(<<"t">>)>>,<<<<"m","e","t","a","d","a","t","a">>,PyStr(<<"o","o","p","s">>)>>>>)>>),
    PyList(<<PyDict(<<<<<<"i","d">>,PyStr(<<"m","5">>)>>,<<<<"t","e","x","t">>,PyStr(<<"t">>)>>,<<<<"m","e","t","a","d","a","t","a">>,PyDict(<<<<<<"s","o","u","r","c","e">>,PyInt(7)>>>>)>>>>)>>) >>

\* an exception raised by requests or by raise_for_status
TransportErrors == <<
    Exc("ConnectionError", <<"c","o","n","n","e","c","t","i","o","n"," ","r","e","f","u","s","e","d">>, "mem0"),
    Exc("HTTPError", <<"5","0","0"," ","S","e","r","v","e","r"," ","E","r","r","o","r">>, "mem0") >>

\* Ctrl-C while the process waits in a call made from where
KeyboardInterrupt(where) == Exc("KeyboardInterrupt", <<>>, where)

\* every outcome of one memory-store round trip
Outcomes ==
    [i \in 1..Len(TransportErrors) |-> Raise(TransportErrors[i])]
    \o <<Raise(KeyboardInterrupt("mem0"))>>
    \o [i \in 1..Len(Responses) |-> Ok(Responses[i])]

\* every outcome of the add round trip of a chat turn, whose value chat_once
\* drops: a failure, or the store's acknowledgement
AddOutcomes ==
    [i \in 1..Len(TransportErrors) |-> Raise(TransportErrors[i])]
    \o <<Raise(KeyboardInterrupt("mem0")),
         Ok(PyDict(<< <<K_results, PyList(<<>>)>> >>))>>

\* a reply of 158 characters: 25 times "word, " and the hyphenated "non-stop"
LongReply ==
    [i \in 1..150 |-> <<"w", "o", "r", "d", ",", " ">>[((i - 1) % 6) + 1]]
    \o <<"n", "o", "n", "-", "s", "t", "o", "p">>

\* every outcome of the completion call: the first choice's text, or an error
Completions == <<
    Ok(<<"o","k">>),
    Ok(<<"t","h","i","s"," ","i","s"," ","d","o","n","e">>),
    Ok(<<"Y","o","u","r"," ","B","u","d","g","e","t"," ","i","s"," ","s","e","t">>),
    Ok(<<"l","i","n","e"," ","o","n","e","\n","l","i","n","e"," ","t","w","o">>),
    Ok(<<"a","\t","b">>),
    Ok(LongReply),
    Raise(Exc("APIError", <<"r","a","t","e"," ","l","i","m","i","t">>, "completion")),
    Raise(KeyboardInterrupt("completion")) >>

(* ---------------- the REPL of main() ---------------- *)

VARIABLES
    CURRENT_AGENT_ID,  \* the module global
    pc,                \* "read": main waits at input(); "search", "complete",
                       \* "add": chat_once before that call; "print": the
                       \* handler returned; "printed": main printed its
                       \* value; "done"; "crashed"
    line,              \* the line input() returned last
    user_input,        \* the line stripped, as main dispatches it
    messages,          \* chat_once: the prompt built
    answer,            \* chat_once: the text of the first choice
    calls,             \* memory-store round trips made for this line
    oa_calls,          \* completion round trips made for this line
    printed,           \* the error lines chat_once printed for this line
    out,               \* the tag main prints for this line and the value the
                       \* handler returned
    shown,             \* what main wrote to stdout for this line
    err,               \* the exception that ended the process, if any
    turn_agent         \* CURRENT_AGENT_ID when main arrived at input()

vars == <<CURRENT_AGENT_ID, pc, line, user_input, messages, answer, calls,
          oa_calls, printed, out, shown, err, turn_agent>>

NoOut == [tag |-> <<>>, val |-> <<>>]
Out(tag, val) == [tag |-> tag, val |-> val]

Init ==
    /\ CURRENT_AGENT_ID = S_vera
    /\ pc = "read"
    /\ line = <<>>
    /\ user_input = <<>>
    /\ messages = <<>>
    /\ answer = <<>>
    /\ calls = <<>>
    /\ oa_calls = <<>>
    /\ printed = <<>>
    /\ out = NoOut
    /\ shown = <<>>
    /\ err = NoExc
    /\ turn_agent = S_vera

IsExit(s) == Lower(s) \in {S_exit, S_quit}
IsMem(s) == ~IsExit(s) /\ StartsWith(s, S_slashMem)
IsAgent(s) == ~IsExit(s) /\ ~IsMem(s) /\ StartsWith(s, S_slashAgent)
IsChat(s) == ~IsExit(s) /\ ~IsMem(s) /\ ~IsAgent(s)

\* input() returned l: what every branch of the loop body starts with
Read(l) ==
    /\ pc = "read"
    /\ line' = l
    /\ user_input' = Strip(l)

\* EOFError or KeyboardInterrupt at input()
MainEOF ==
    /\ pc = "read"
    /\ pc' = "done"
    /\ shown' = <<"\n">> \o S_Bye \o <<"\n">>
    /\ UNCHANGED <<CURRENT_AGENT_ID, line, user_input, messages, answer,
                   calls, oa_calls, printed, out, err, turn_agent>>

\* exit / quit
MainExit(l) ==
    /\ pc = "read"
    /\ IsExit(Strip(l))
    /\ Read(l)
    /\ pc' = "done"
    /\ shown' = S_Bye \o <<"\n">>
    /\ UNCHANGED <<CURRENT_AGENT_ID, messages, answer, calls, oa_calls,
                   printed, out, err, turn_agent>>

\* a line main hands to handler h: its value is what main prints under tag;
\* an exception raised out of the handler ends the process
Dispatch(l, h, tag) ==
    /\ Read(l)
    /\ calls' = h.calls
    /\ CURRENT_AGENT_ID' = h.agent
    /\ IF h.ret.ok
       THEN pc' = "print" /\ out' = Out(tag, h.ret.val) /\ err' = NoExc
       ELSE pc' = "crashed" /\ out' = NoOut /\ err' = h.ret.exc
    /\ UNCHANGED <<messages, answer, oa_calls, printed, shown, turn_agent>>

\* /mem commands
MainMem(l, o) ==
    /\ pc = "read"
    /\ IsMem(Strip(l))
    /\ Dispatch(l, handle_mem_command(Strip(l), CURRENT_AGENT_ID, o),
                S_MEMORIES)

\* /agent commands
MainAgent(l) ==
    /\ pc = "read"
    /\ IsAgent(Strip(l))
    /\ Dispatch(l, handle_agent_command(Strip(l), CURRENT_AGENT_ID),
                S_AGENT)

\* normal chat: main calls chat_once(user_input)
MainChat(l) ==
    /\ pc = "read"
    /\ IsChat(Strip(l))
    /\ Read(l)
    /\ pc' = "search"
    /\ UNCHANGED <<CURRENT_AGENT_ID, messages, answer, calls, oa_calls,
                   printed, out, shown, err, turn_agent>>

\* ChatSearch without the try/except around mem_client.search
ChatSearch_NoCatch(o) ==
    /\ pc = "search"
    /\ LET block == format_memories(chat_search_results(o), 8)
       IN  /\ calls' = Append(calls, Call(search(user_input, PyNone,
                                                 PyStr(CURRENT_AGENT_ID),
                                                 PyNone, PyNone), o))
           /\ printed' = printed
           /\ IF o.ok /\ block.ok
              THEN /\ messages' = chat_messages(user_input, CURRENT_AGENT_ID,
                                                block.val)
                   /\ pc' = "complete"
                   /\ err' = NoExc
              ELSE /\ messages' = <<>>
                   /\ pc' = "crashed"
                   /\ err' = IF o.ok THEN block.exc ELSE o.exc
    /\ UNCHANGED <<CURRENT_AGENT_ID, line, user_input, answer, oa_calls, out,
                   shown, turn_agent>>

\* chat_once 1) and 2): search, with an Exception printed and taken as no
\* results, then format the memory block and build the prompt
ChatSearch(o) ==
    /\ pc = "search"
    /\ LET block == format_memories(chat_search_results(o), 8)
       IN  /\ calls' = Append(calls, Call(search(user_input, PyNone,
                                                 PyStr(CURRENT_AGENT_ID),
                                                 PyNone, PyNone), o))
           /\ printed' = IF o.ok \/ ~IsException(o.exc) THEN printed
                         ELSE Append(printed, S_SearchErr \o o.exc.msg)
           /\ IF ~o.ok /\ ~IsException(o.exc)
              THEN /\ messages' = <<>>
                   /\ pc' = "crashed"
                   /\ err' = o.exc
              ELSE IF block.ok
              THEN /\ messages' = chat_messages(user_input, CURRENT_AGENT_ID,
                                                block.val)
                   /\ pc' = "complete"
                   /\ err' = NoExc
              ELSE /\ messages' = <<>>
                   /\ pc' = "crashed"
                   /\ err' = block.exc
    /\ UNCHANGED <<CURRENT_AGENT_ID, line, user_input, answer, oa_calls, out,
                   shown, turn_agent>>

\* ChatComplete with the completion error caught and an empty answer used
ChatComplete_Swallow(c) ==
    /\ pc = "complete"
    /\ oa_calls' = Append(oa_calls, Call(chat_completion_request(messages), c))
    /\ answer' = IF c.ok THEN c.val ELSE <<>>
    /\ pc' = "add"
    /\ err' = NoExc
    /\ UNCHANGED <<CURRENT_AGENT_ID, line, user_input, messages, calls,
                   printed, out, shown, turn_agent>>

\* chat_once 3): the completion call; its error is not caught, here or in main
ChatComplete(c) ==
    /\ pc = "complete"
    /\ oa_calls' = Append(oa_calls, Call(chat_completion_request(messages), c))
    /\ IF c.ok
       THEN answer' = c.val /\ pc' = "add" /\ err' = NoExc
       ELSE answer' = <<>> /\ pc' = "crashed" /\ err' = c.exc
    /\ UNCHANGED <<CURRENT_AGENT_ID, line, user_input, messages, calls,
                   printed, out, shown, turn_agent>>

\* ChatAdd without the try/except around mem_client.add_memories
ChatAdd_NoCatch(o) ==
    /\ pc = "add"
    /\ calls' = Append(calls, Call(chat_add_request(user_input, answer,
                                                    CURRENT_AGENT_ID), o))
    /\ printed' = printed
    /\ IF o.ok
       THEN out' = Out(S_Assistant, answer) /\ pc' = "print" /\ err' = NoExc
       ELSE out' = NoOut /\ pc' = "crashed" /\ err' = o.exc
    /\ UNCHANGED <<CURRENT_AGENT_ID, line, user_input, messages, answer,
                   oa_calls, shown, turn_agent>>

\* chat_once 4): store the turn, with an Exception printed and dropped, then
\* return the answer to main
ChatAdd(o) ==
    /\ pc = "add"
    /\ calls' = Append(calls, Call(chat_add_request(user_input, answer,
                                                    CURRENT_AGENT_ID), o))
    /\ printed' = IF o.ok \/ ~IsException(o.exc) THEN printed
                  ELSE Append(printed, S_AddErr \o o.exc.msg)
    /\ IF ~o.ok /\ ~IsException(o.exc)
       THEN out' = NoOut /\ pc' = "crashed" /\ err' = o.exc
       ELSE out' = Out(S_Assistant, answer) /\ pc' = "print" /\ err' = NoExc
    /\ UNCHANGED <<CURRENT_AGENT_ID, line, user_input, messages, answer,
                   oa_calls, shown, turn_agent>>

\* main prints an empty line and the tag, then the value the handler
\* returned, a chat reply filled to lines of 100 columns; each print ends
\* with a line feed
MainPrint ==
    /\ pc = "print"
    /\ pc' = "printed"
    /\ shown' = <<"\n">> \o out.tag \o <<"\n">>
                   \o (IF out.tag = S_Assistant
                       THEN fill(out.val, 100) ELSE out.val)
                   \o <<"\n">>
    /\ UNCHANGED <<CURRENT_AGENT_ID, line, user_input, messages, answer,
                   calls, oa_calls, printed, out, err, turn_agent>>

\* the loop goes back to input(); what was recorded for the line is dropped
MainContinue ==
    /\ pc = "printed"
    /\ pc' = "read"
    /\ line' = <<>>
    /\ user_input' = <<>>
    /\ messages' = <<>>
    /\ answer' = <<>>
    /\ calls' = <<>>
    /\ oa_calls' = <<>>
    /\ printed' = <<>>
    /\ out' = NoOut
    /\ shown' = <<>>
    /\ err' = NoExc
    /\ turn_agent' = CURRENT_AGENT_ID
    /\ UNCHANGED CURRENT_AGENT_ID

Next ==
    \/ MainEOF
    \/ \E i \in 1..Len(Lines) : MainExit(Lines[i])
    \/ \E i \in 1..Len(Lines), j \in 1..Len(Outcomes) :
          MainMem(Lines[i], Outcomes[j])
    \/ \E i \in 1..Len(Lines) : MainAgent(Lines[i])
    \/ \E i \in 1..Len(Lines) : MainChat(Lines[i])
    \/ \E j \in 1..Len(Outcomes) : ChatSearch(Outcomes[j])
    \/ \E j \in 1..Len(Completions) : ChatComplete(Completions[j])
    \/ \E j \in 1..Len(AddOutcomes) : ChatAdd(AddOutcomes[j])
    \/ MainPrint
    \/ MainContinue

Spec == Init /\ [][Next]_vars

(* ---------------- properties ---------------- *)

\* main is inside, or has just left, chat_once for the line it read
InChatTurn ==
    /\ pc \in {"search", "complete", "add", "print", "printed", "crashed"}
    /\ IsChat(user_input)

\* the same for handle_mem_command
InMemCommand == pc \in {"print", "printed", "crashed"} /\ IsMem(user_input)

\* chat_once has returned to main
Returned == pc \in {"print", "printed"}

\* the round trip c raised an error: an Exception of the collaborator, not a
\* Ctrl-C that interrupts the process while it waits
RaisedError(c) == ~c.outcome.ok /\ IsException(c.outcome.exc)

\* the process was interrupted during the round trip c
Interrupted(c) == ~c.outcome.ok /\ ~IsException(c.outcome.exc)

\* the system message that carries an empty memory block
EmptyBlockMessage == Message(S_system, S_RelevantPrior \o S_NoMemoriesFound)

\* the search of this dialogue turn raised an error
SearchFailed == InChatTurn /\ Len(calls) >= 1 /\ RaisedError(calls[1])

\* the completion call of this dialogue turn raised
CompletionFailed == InChatTurn /\ Len(oa_calls) = 1 /\ ~oa_calls[1].outcome.ok

\* the add of this dialogue turn raised an error
AddFailed ==
    /\ InChatTurn
    /\ Len(calls) = 2
    /\ calls[2].req.op = "add_memories"
    /\ RaisedError(calls[2])

\* C1: when the search of a dialogue turn raises an error, the turn goes on:
\* the prompt carries the block of an empty result ("No memories found."),
\* the completion is called once with it, and chat_once returns the
\* completion's answer; only a failure of the completion itself, or a Ctrl-C
\* during the add, ends the turn.
C1_SearchFailureKeepsTurn ==
    SearchFailed =>
        /\ pc \in {"complete", "add", "print", "printed", "crashed"}
        /\ Len(oa_calls) <= 1
        /\ pc = "complete" => Len(oa_calls) = 0 /\ messages[3] = EmptyBlockMessage
        /\ pc \in {"add", "print", "printed"} =>
              /\ Len(oa_calls) = 1
              /\ oa_calls[1].outcome.ok
              /\ oa_calls[1].req.messages[3] = EmptyBlockMessage
        /\ Returned => out = Out(S_Assistant, oa_calls[1].outcome.val)
        /\ pc = "crashed" =>
              /\ Len(oa_calls) = 1
              /\ oa_calls[1].req.messages[3] = EmptyBlockMessage
              /\ \/ CompletionFailed /\ err = oa_calls[1].outcome.exc
                 \/ /\ Len(calls) = 2
                    /\ Interrupted(calls[2])
                    /\ err = calls[2].outcome.exc

\* a turn whose search raised has returned the completion's answer
C1_Witness ==
    /\ SearchFailed
    /\ pc = "print"
    /\ Len(oa_calls) = 1
    /\ out = Out(S_Assistant, oa_calls[1].outcome.val)
    /\ printed # <<>>

\* C2: when the completion call of a dialogue turn raises, the error leaves
\* chat_once (and main) as it is, nothing is returned or printed for the
\* turn, and no add request is sent.
C2_CompletionFailureIsFatal ==
    CompletionFailed =>
        /\ pc = "crashed"
        /\ err = oa_calls[1].outcome.exc
        /\ out = NoOut
        /\ \A i \in 1..Len(calls) : calls[i].req.op # "add_memories"

\* the completion raised after a search that returned memories
C2_Witness ==
    /\ CompletionFailed
    /\ pc = "crashed"
    /\ Len(calls) = 1
    /\ calls[1].outcome.ok

\* C3: when the add of a dialogue turn raises an error, chat_once still
\* returns the text the completion produced, whether the search of the turn
\* raised or not.
C3_AddFailureKeepsAnswer ==
    AddFailed =>
        /\ Returned
        /\ err = NoExc
        /\ Len(oa_calls) = 1
        /\ oa_calls[1].outcome.ok
        /\ out = Out(S_Assistant, oa_calls[1].outcome.val)

\* both the search and the add of a turn raised, and the answer was returned
C3_Witness ==
    /\ AddFailed
    /\ SearchFailed
    /\ pc = "print"
    /\ out.tag = S_Assistant
    /\ out.val = oa_calls[1].outcome.val
    /\ Len(out.val) > 0

\* the name argument of an /agent line s: what follows its first word, trimmed
NameArg(s) == Strip(From(s, SkipWord(s, 1)))

\* this step is main handling an /agent line that names an agent
AgentSwitchStep ==
    /\ pc = "read"
    /\ pc' = "print"
    /\ out'.tag = S_AGENT
    /\ StartsWith(user_input', S_slashAgent)
    /\ NameArg(user_input') # <<>>
    /\ CURRENT_AGENT_ID' = NameArg(user_input')

\* C4: the active agent starts at the default, is never the empty string, and
\* changes only in a step that handles an /agent line with a non-blank name:
\* dialogue turns, /mem commands (failing or not), a bare /agent and failed
\* collaborator calls leave it as it is.
C4_OnlyAgentCommandChangesAgent ==
    /\ CURRENT_AGENT_ID = S_vera
    /\ [](CURRENT_AGENT_ID # <<>>)
    /\ [][CURRENT_AGENT_ID' # CURRENT_AGENT_ID => AgentSwitchStep]_vars

\* after a switch away from the default, a /mem clear whose call raised has
\* left the agent where the switch put it
C4_Witness ==
    /\ CURRENT_AGENT_ID # S_vera
    /\ CURRENT_AGENT_ID = turn_agent
    /\ InMemCommand
    /\ pc = "print"
    /\ Len(calls) = 1
    /\ calls[1].req.op = "delete_all"
    /\ RaisedError(calls[1])

\* the line is /agent followed by whitespace only
BlankAgentLine(l) ==
    /\ StartsWith(l, S_slashAgent)
    /\ Len(l) > Len(S_slashAgent)
    /\ \A i \in (Len(S_slashAgent) + 1)..Len(l) : IsSpace(l[i])

\* C5: an /agent line whose name is blank after trimming leaves the agent
\* unchanged and is answered with "Usage: /agent <name>".
C5_BlankAgentNameGivesUsage ==
    (pc = "print" /\ out.tag = S_AGENT /\ BlankAgentLine(line)) =>
        /\ CURRENT_AGENT_ID = turn_agent
        /\ out.val = S_UsageAgent

\* the words of a line, split at every run of whitespace
Words(s) == Split(s, Len(s))

\* the form of a /mem line as the command table gives it: the operation it
\* asks for, "usage" with the usage text when the argument is missing, or
\* "unknown"
MemForm(s) ==
    LET w == Words(s)
        sub == Lower(w[2])
    IN  IF Len(w) = 1 THEN [kind |-> "list_memories", text |-> <<>>]
        ELSE IF sub = S_search
        THEN IF Len(w) = 2 THEN [kind |-> "usage", text |-> S_UsageSearch]
             ELSE [kind |-> "search", text |-> <<>>]
        ELSE IF sub = S_show
        THEN IF Len(w) = 2 THEN [kind |-> "usage", text |-> S_UsageShow]
             ELSE [kind |-> "get_memory", text |-> <<>>]
        ELSE IF sub = S_delete
        THEN IF Len(w) = 2 THEN [kind |-> "usage", text |-> S_UsageDelete]
             ELSE [kind |-> "delete_memory", text |-> <<>>]
        ELSE IF sub = S_clear THEN [kind |-> "delete_all", text |-> <<>>]
        ELSE [kind |-> "unknown", text |-> S_UnknownMem]

\* C6: a /mem line that lacks the argument of search, show or delete, or
\* names an unknown subcommand, is answered with the usage text and no
\* memory-store request is sent; a request is sent only for /mem, /mem clear
\* and search, show, delete with an argument, and then it is the one request
\* of that form.
C6_UsageSendsNoRequest ==
    InMemCommand =>
        LET f == MemForm(user_input)
        IN  /\ f.kind \in {"usage", "unknown"} =>
                  /\ calls = <<>>
                  /\ Returned
                  /\ out = Out(S_MEMORIES, f.text)
            /\ calls # <<>> =>
                  /\ Len(calls) = 1
                  /\ f.kind \notin {"usage", "unknown"}
                  /\ calls[1].req.op = f.kind

\* /mem search without a query was answered with its usage text
C6_Witness ==
    /\ InMemCommand
    /\ pc = "print"
    /\ Words(user_input) = <<S_slashMem, S_search>>
    /\ out.val = S_UsageSearch
    /\ calls = <<>>

\* C7: format_memories returns a text for every value the memory store can
\* answer with, also for records whose data, metadata or meta is no mapping.
C7_FormatNeverFails ==
    \A i \in 1..Len(calls) :
        (calls[i].outcome.ok
           /\ calls[i].req.op \in {"search", "list_memories", "get_memory"})
        => format_memories(calls[i].outcome.val, 30).ok

\* the nine keywords of the importance heuristic
NineKeywords == {
    <<"r","e","m","e","m","b","e","r">>,
    <<"n","o","t","e"," ","t","h","i","s">>,
    <<"i","m","p","o","r","t","a","n","t">>,
    <<"p","e","r","m","a","n","e","n","t">>,
    <<"p","r","e","f","e","r","e","n","c","e">>,
    <<"g","o","a","l">>,
    <<"t","a","r","g","e","t">>,
    <<"s","c","h","e","d","u","l","e">>,
    <<"b","u","d","g","e","t">> }

\* word k occurs in s, letter case ignored in s
OccursIgnoringCase(k, s) ==
    \E i \in 0..(Len(s) - Len(k)) :
        \A j \in 1..Len(k) : LowerChar(s[i + j]) = k[j]

\* the importance flag the heuristic is documented to give
DocumentedImportance(user_input_, answer_) ==
    \/ \E k \in NineKeywords :
          OccursIgnoringCase(k, user_input_ \o <<" ">> \o answer_)
    \/ Len(user_input_) > 140

\* C8: every add request of a dialogue turn carries the user message and the
\* answer, in this order, the current agent, and the metadata source
\* "local_assistant" with important = (a keyword occurs in the lower-cased
\* user_input + " " + answer, or user_input is longer than 140 characters);
\* a user input that contains "remember" is stored with important = true.
C8_AddRequestCarriesImportance ==
    \A i \in 1..Len(calls) :
        calls[i].req.op = "add_memories" =>
            LET d == calls[i].req.data
            IN  /\ Get(d, K_messages)
                     = PyList(<<Message(S_user, user_input),
                                Message(S_assistant, answer)>>)
                /\ Get(d, K_agent_id) = PyStr(CURRENT_AGENT_ID)
                /\ Get(d, K_metadata)
                     = PyDict(<< <<K_source, PyStr(S_local_assistant)>>,
                                 <<K_important,
                                   PyBool(DocumentedImportance(user_input,
                                                               answer))>> >>)
                /\ Contains(user_input, <<"r","e","m","e","m","b","e","r">>)
                      => Get(Get(d, K_metadata), K_important) = PyBool(TRUE)

\* a turn whose input contains "remember" was sent to the store as important
C8_Witness ==
    /\ InChatTurn
    /\ Contains(user_input, <<"r","e","m","e","m","b","e","r">>)
    /\ Len(calls) = 2
    /\ calls[2].req.op = "add_memories"
    /\ Get(Get(calls[2].req.data, K_metadata), K_important) = PyBool(TRUE)

\* the bracketed tag of the operation named n, with the space after it
ErrorTag(n) ==
    <<"[","m","e","m","0"," ">> \o n \o <<" ","e","r","r","o","r","]"," ">>

\* the name each memory-store operation has in the error tags
TagName(op) ==
    CASE op = "list_memories" -> <<"l","i","s","t">>
      [] op = "search" -> <<"s","e","a","r","c","h">>
      [] op = "get_memory" -> <<"g","e","t">>
      [] op = "delete_memory" -> <<"d","e","l","e","t","e">>
      [] op = "delete_all" -> <<"c","l","e","a","r">>

\* the memory-store call of this /mem command raised an error
MemCallFailed == InMemCommand /\ Len(calls) = 1 /\ RaisedError(calls[1])

\* C9: when the memory-store call of a /mem command raises an error, the
\* handler returns the bracketed tag of the failing operation followed by the
\* error detail, nothing is raised out of it, main prints that text and goes
\* on to the next line.
C9_MemErrorIsReturnedAsText ==
    MemCallFailed =>
        /\ Returned
        /\ err = NoExc
        /\ out = Out(S_MEMORIES, ErrorTag(TagName(calls[1].req.op))
                                   \o calls[1].outcome.exc.msg)
        /\ pc = "print" => ENABLED MainPrint
        /\ pc = "printed" =>
              /\ shown = <<"\n">> \o S_MEMORIES \o <<"\n">> \o out.val
                            \o <<"\n">>
              /\ ENABLED MainContinue

\* a /mem show whose fetch raised was answered with "[mem0 get error] ..."
C9_Witness ==
    /\ MemCallFailed
    /\ calls[1].req.op = "get_memory"
    /\ pc = "print"
    /\ StartsWith(out.val, <<"[","m","e","m","0"," ","g","e","t"," ","e","r","r","o","r","]">>)

\* the chat_once requests made so far in this turn all name agent a
TurnRequestsName(a) ==
    /\ \A i \in 1..Len(calls) : Get(calls[i].req.data, K_agent_id) = PyStr(a)
    /\ \A i \in 1..Len(oa_calls) :
          oa_calls[i].req.messages[2] = Message(S_system, S_CurrentAgent \o a)
    /\ pc = "complete" => messages[2] = Message(S_system, S_CurrentAgent \o a)

\* a step taken inside chat_once leaves the agent alone and only adds to the
\* requests already made
TurnStepKeepsRequests ==
    pc \in {"search", "complete", "add"} =>
        /\ CURRENT_AGENT_ID' = CURRENT_AGENT_ID
        /\ Len(calls') >= Len(calls)
        /\ SubSeq(calls', 1, Len(calls)) = calls
        /\ Len(oa_calls') >= Len(oa_calls)
        /\ SubSeq(oa_calls', 1, Len(oa_calls)) = oa_calls

\* C10: within a dialogue turn the search request, the "Current agent:"
\* message and the add request all carry the agent that was active when the
\* line was read; the agent does not change during the turn and a request
\* once made is not altered.
C10_OneAgentPerTurn ==
    /\ [](InChatTurn =>
            CURRENT_AGENT_ID = turn_agent /\ TurnRequestsName(turn_agent))
    /\ [][TurnStepKeepsRequests]_vars

\* a whole turn made after a switch away from the default agent
C10_Witness ==
    /\ InChatTurn
    /\ pc = "print"
    /\ turn_agent # S_vera
    /\ Len(calls) = 2
    /\ Len(oa_calls) = 1
    /\ Get(calls[1].req.data, K_agent_id) = PyStr(turn_agent)
    /\ Get(calls[2].req.data, K_agent_id) = PyStr(turn_agent)
====
